---------------------------- MODULE Spec2Model ----------------------------
(***************************************************************************)
(* Movie rating service: the relational store (directors, genres, movies,  *)
(* movie_genres, movie_ratings), the repository's queries and writes, the  *)
(* service's orchestration and the HTTP handlers of the controller.        *)
(*                                                                         *)
(* Conventions.  A nullable value is a set with at most one element: {} is *)
(* None / NULL and {v} is the value v.  A text column that is pattern      *)
(* matched (title, genre name) is a sequence of one-character strings.     *)
(* average_rating is kept in tenths (90 is 9.0).                           *)
(***************************************************************************)
EXTENDS Integers, Sequences, FiniteSets, TLC

VARIABLES
    directors,      \* table directors: id -> [name, birth_year, description]
    genres,         \* table genres: id -> [name, description]
    movies,         \* table movies: id -> [title, release_year, cast, director_id]
    movie_genres,   \* association table: set of <<movie_id, genre_id>>
    movie_ratings,  \* table movie_ratings: id -> [movie_id, score, rated_at]
    nextMovieId,    \* the movies.id sequence
    nextRatingId,   \* the movie_ratings.id sequence
    clock,          \* the database server's now(), in seconds
    req,            \* the HTTP request being answered
    resp,           \* the HTTP response to it
    calls           \* per caller: the handler call in progress (its position
                    \* and locals) while callers run concurrently

vars == <<directors, genres, movies, movie_genres, movie_ratings,
          nextMovieId, nextRatingId, clock, req, resp, calls>>

tables == <<directors, genres, movies, movie_genres, movie_ratings>>

-----------------------------------------------------------------------------
(* Bounds of the model. *)

MaxMovieId == 2
MaxRatingId == 3

-----------------------------------------------------------------------------
(* Nullable values and small helpers. *)

None == {}
Some(v) == {v}
The(o) == CHOOSE v \in o : TRUE

Min(a, b) == IF a < b THEN a ELSE b

RECURSIVE SumScores(_, _)
SumScores(rows, rs) ==
    IF rs = {} THEN 0
    ELSE LET r == CHOOSE r \in rs : TRUE
         IN  rows[r].score + SumScores(rows, rs \ {r})

RECURSIVE SortAsc(_)
SortAsc(S) ==
    IF S = {} THEN <<>>
    ELSE LET m == CHOOSE m \in S : \A n \in S : m <= n
         IN  <<m>> \o SortAsc(S \ {m})

SeqElems(s) == {s[i] : i \in 1..Len(s)}

(* Python truthiness of an Optional[str] / Optional[int] / Optional[list]. *)
Truthy(o, falsy) == o # None /\ The(o) # falsy

-----------------------------------------------------------------------------
(* Column ILIKE '%<text>%': SQL pattern matching, case-insensitive, where   *)
(* '%' in the pattern matches any run of characters and '_' any single one. *)

Lower(c) == IF c = "A" THEN "a" ELSE IF c = "B" THEN "b" ELSE c

RECURSIVE Like(_, _)
Like(p, s) ==
    IF p = <<>> THEN s = <<>>
    ELSE IF Head(p) = "%"
         THEN Like(Tail(p), s) \/ (s # <<>> /\ Like(p, Tail(s)))
         ELSE /\ s # <<>>
              /\ (Head(p) = "_" \/ Lower(Head(p)) = Lower(Head(s)))
              /\ Like(Tail(p), Tail(s))

ilike(s, text) == Like(<<"%">> \o text \o <<"%">>, s)

-----------------------------------------------------------------------------
(* The database as a value, for the repository's operators. *)

DB == [directors |-> directors, genres |-> genres, movies |-> movies,
       movie_genres |-> movie_genres, movie_ratings |-> movie_ratings]

MovieColumns == {"title", "release_year", "cast", "director_id"}

GenresOf(db, movie_id) == {l[2] : l \in {k \in db.movie_genres : k[1] = movie_id}}

RatingsOf(db, movie_id) ==
    {r \in DOMAIN db.movie_ratings : db.movie_ratings[r].movie_id = movie_id}

(* Mutant of RoundTenths: the average cut to one decimal, not rounded. *)
RoundTenths_Truncated(sum, count) == (10 * sum) \div count

(* round(float(avg), 1) in tenths: Python rounds to the nearest tenth and, *)
(* on an exact tie, to the even one.  A mean of fewer than 20 integers     *)
(* that lies halfway between two tenths ends in .25 or .75, which a float  *)
(* holds exactly.                                                          *)
RoundTenths(sum, count) ==
    LET q == (10 * sum) \div count
        r == (10 * sum) % count
    IN  IF 2 * r < count THEN q
        ELSE IF 2 * r > count THEN q + 1
        ELSE IF q % 2 = 0 THEN q ELSE q + 1

(* stats = (avg(score), count(id)) over the movie's rating rows; avg of no *)
(* rows is NULL.  "if stats[0]" is false for NULL and for a zero average.  *)
AverageRating(sum, count) ==
    IF count = 0 \/ sum = 0 THEN None ELSE Some(RoundTenths(sum, count))

DirectorSummary(db, director_id) ==
    [id |-> director_id, name |-> db.directors[director_id].name]

DirectorFull(db, director_id) ==
    [id |-> director_id, name |-> db.directors[director_id].name,
     birth_year |-> db.directors[director_id].birth_year,
     description |-> db.directors[director_id].description]

format_movie_response(db, movie_id, full_director) ==
    LET movie == db.movies[movie_id]
        rs    == RatingsOf(db, movie_id)
        count == Cardinality(rs)
        sum   == SumScores(db.movie_ratings, rs)
    IN  [id |-> movie_id,
         title |-> movie.title,
         release_year |-> movie.release_year,
         director |->
            IF movie.director_id = None THEN None
            ELSE IF full_director
                 THEN Some(DirectorFull(db, The(movie.director_id)))
                 ELSE Some(DirectorSummary(db, The(movie.director_id))),
         genres |-> {db.genres[g].name : g \in GenresOf(db, movie_id)},
         cast |-> movie.cast,
         average_rating |-> AverageRating(sum, count),
         ratings_count |-> count]

(* The rows of the filtered query: one row per movie, or, once the genre   *)
(* filter joins movie_genres and genres, one row per (movie, genre) pair.  *)
QueryRows(db, title, genre, release_year) ==
    LET byTitle == IF Truthy(title, <<>>)
                   THEN {m \in DOMAIN db.movies :
                            ilike(The(db.movies[m].title), The(title))}
                   ELSE DOMAIN db.movies
        byYear  == IF Truthy(release_year, 0)
                   THEN {m \in byTitle : db.movies[m].release_year = release_year}
                   ELSE byTitle
    IN  IF Truthy(genre, <<>>)
        THEN {<<l[1], l[2]>> : l \in {k \in db.movie_genres :
                    /\ k[1] \in byYear
                    /\ ilike(db.genres[k[2]].name, The(genre))}}
        ELSE {<<m, 0>> : m \in byYear}

(* query.distinct(): the selected columns are the movie's, so two rows are *)
(* the same row exactly when they are rows of the same movie.              *)
Distinct(rows) == {r[1] : r \in rows}

Offset(s, skip) == SubSeq(s, skip + 1, Len(s))
Limit(s, limit) == SubSeq(s, 1, Min(limit, Len(s)))

get_all_movies(db, skip, limit, title, genre, release_year) ==
    LET query       == QueryRows(db, title, genre, release_year)
        total_items == Cardinality(Distinct(query))
        ids         == Limit(Offset(SortAsc(Distinct(query)), skip), limit)
    IN  [items |-> [i \in 1..Len(ids) |-> format_movie_response(db, ids[i], FALSE)],
         total_items |-> total_items]

get_movie_details(db, movie_id) ==
    IF movie_id \notin DOMAIN db.movies THEN None
    ELSE Some(format_movie_response(db, movie_id, TRUE))

-----------------------------------------------------------------------------
(* Repository writes.  Each returns the database after the call (unchanged  *)
(* when the commit is refused), whether the commit went through, and the    *)
(* value returned to the caller.                                            *)

(* Mutant of ResolveGenres: a list with an unknown id resolves to nothing. *)
ResolveGenres_AllOrNothing(db, genre_ids) ==
    IF SeqElems(genre_ids) \subseteq DOMAIN db.genres THEN SeqElems(genre_ids) ELSE {}

(* Mutant of WithMovie: the new links are added to the movie's old ones. *)
WithMovie_MergesLinks(db, movie_id, row, genre_set) ==
    [db EXCEPT
        !.movies = (movie_id :> row) @@ db.movies,
        !.movie_genres = db.movie_genres \cup {<<movie_id, g>> : g \in genre_set}]

(* Mutant of WithMovie: the movie row is written without its link rows. *)
WithMovie_RowOnly(db, movie_id, row, genre_set) ==
    [db EXCEPT !.movies = (movie_id :> row) @@ db.movies]

(* Genre.id.in_(genre_ids): the genre rows whose id is in the list. *)
ResolveGenres(db, genre_ids) == {g \in DOMAIN db.genres : g \in SeqElems(genre_ids)}

(* The constraints the movies table declares: title and release_year are   *)
(* NOT NULL, director_id references directors.id.                          *)
MovieRowOk(db, row) ==
    /\ row.title # None
    /\ row.release_year # None
    /\ row.director_id # None => The(row.director_id) \in DOMAIN db.directors

WithMovie(db, movie_id, row, genre_set) ==
    [db EXCEPT
        !.movies = (movie_id :> row) @@ db.movies,
        !.movie_genres = {l \in db.movie_genres : l[1] # movie_id}
                            \cup {<<movie_id, g>> : g \in genre_set}]

create_movie(db, movie_data, genre_ids, new_id) ==
    LET new_movie  == movie_data
        new_genres == IF Truthy(genre_ids, <<>>)
                      THEN ResolveGenres(db, The(genre_ids))
                      ELSE {}
        after      == WithMovie(db, new_id, new_movie, new_genres)
    IN  IF MovieRowOk(db, new_movie)
        THEN [ok |-> TRUE, db |-> after,
              ret |-> Some(format_movie_response(after, new_id, FALSE))]
        ELSE [ok |-> FALSE, db |-> db, ret |-> None]

(* Mutant of ApplyAttributes: a field sent as null overwrites the column. *)
ApplyAttributes_SetsNull(movie, movie_data) ==
    [c \in DOMAIN movie |->
        IF c \in DOMAIN movie_data THEN movie_data[c] ELSE movie[c]]

(* setattr(movie, key, value) for every item of movie_data that is not None. *)
ApplyAttributes(movie, movie_data) ==
    [c \in DOMAIN movie |->
        IF c \in DOMAIN movie_data /\ movie_data[c] # None
        THEN movie_data[c] ELSE movie[c]]

update_movie(db, movie_id, movie_data, genre_ids) ==
    IF movie_id \notin DOMAIN db.movies
    THEN [ok |-> TRUE, db |-> db, ret |-> None]
    ELSE LET movie      == ApplyAttributes(db.movies[movie_id], movie_data)
             new_genres == IF genre_ids # None
                           THEN ResolveGenres(db, The(genre_ids))
                           ELSE GenresOf(db, movie_id)
             after      == WithMovie(db, movie_id, movie, new_genres)
         IN  IF MovieRowOk(db, movie)
             THEN [ok |-> TRUE, db |-> after,
                   ret |-> get_movie_details(after, movie_id)]
             ELSE [ok |-> FALSE, db |-> db, ret |-> None]

(* Mutant of delete_movie: the movie's rating rows are left behind. *)
delete_movie_KeepsRatings(db, movie_id) ==
    IF movie_id \in DOMAIN db.movies
    THEN [ok |-> TRUE, ret |-> TRUE,
          db |-> [db EXCEPT
            !.movie_genres = {l \in db.movie_genres : l[1] # movie_id},
            !.movies = [m \in DOMAIN db.movies \ {movie_id} |-> db.movies[m]]]]
    ELSE [ok |-> TRUE, ret |-> FALSE, db |-> db]

(* Mutant of delete_movie: a movie that is not there is reported deleted. *)
delete_movie_ReportsTrue(db, movie_id) ==
    IF movie_id \in DOMAIN db.movies
    THEN [ok |-> TRUE, ret |-> TRUE,
          db |-> [db EXCEPT
            !.movie_ratings =
                [r \in DOMAIN db.movie_ratings \ RatingsOf(db, movie_id)
                    |-> db.movie_ratings[r]],
            !.movie_genres = {l \in db.movie_genres : l[1] # movie_id},
            !.movies = [m \in DOMAIN db.movies \ {movie_id} |-> db.movies[m]]]]
    ELSE [ok |-> TRUE, ret |-> TRUE, db |-> db]

(* query(MovieRating).filter(movie_id == id).delete(), then db.delete(movie): *)
(* the session removes the movie's rows of the association table and the     *)
(* movie row.                                                                *)
delete_movie(db, movie_id) ==
    IF movie_id \in DOMAIN db.movies
    THEN [ok |-> TRUE, ret |-> TRUE,
          db |-> [db EXCEPT
            !.movie_ratings =
                [r \in DOMAIN db.movie_ratings \ RatingsOf(db, movie_id)
                    |-> db.movie_ratings[r]],
            !.movie_genres = {l \in db.movie_genres : l[1] # movie_id},
            !.movies = [m \in DOMAIN db.movies \ {movie_id} |-> db.movies[m]]]]
    ELSE [ok |-> TRUE, ret |-> FALSE, db |-> db]

(* rated_at.strftime("%Y-%m-%dT%H:%M:%SZ"): the second-precision fields of *)
(* the timestamp followed by a literal Z.                                  *)
strftime(t) == [seconds |-> t, suffix |-> "Z"]

(* Mutant of add_rating: the new row replaces the movie's earlier ratings. *)
add_rating_Replaces(db, movie_id, score, new_id, now) ==
    LET new_rating == [movie_id |-> movie_id, score |-> score, rated_at |-> now]
        kept       == DOMAIN db.movie_ratings \ RatingsOf(db, movie_id)
    IN  IF movie_id \in DOMAIN db.movies
        THEN [ok |-> TRUE,
              db |-> [db EXCEPT !.movie_ratings =
                        (new_id :> new_rating) @@ [r \in kept |-> db.movie_ratings[r]]],
              ret |-> Some([rating_id |-> new_id,
                            movie_id |-> new_rating.movie_id,
                            score |-> new_rating.score,
                            rated_at |-> strftime(new_rating.rated_at)])]
        ELSE [ok |-> FALSE, db |-> db, ret |-> None]

(* movie_ratings.movie_id references movies.id; rated_at defaults to now(). *)
add_rating(db, movie_id, score, new_id, now) ==
    LET new_rating == [movie_id |-> movie_id, score |-> score, rated_at |-> now]
    IN  IF movie_id \in DOMAIN db.movies
        THEN [ok |-> TRUE,
              db |-> [db EXCEPT !.movie_ratings = (new_id :> new_rating) @@ @],
              ret |-> Some([rating_id |-> new_id,
                            movie_id |-> new_rating.movie_id,
                            score |-> new_rating.score,
                            rated_at |-> strftime(new_rating.rated_at)])]
        ELSE [ok |-> FALSE, db |-> db, ret |-> None]

-----------------------------------------------------------------------------
(* Request bodies (MovieCreateUpdate): the five optional fields, each       *)
(* None by default, and model_fields_set, the fields the client sent.       *)

BodyFields == MovieColumns \cup {"genres"}

(* movie_data.model_dump(exclude={'genres'}) *)
model_dump(body) == [k \in MovieColumns |-> body[k]]

(* movie_data.model_dump(exclude={'genres'}, exclude_unset=True) *)
model_dump_exclude_unset(body) ==
    [k \in body.model_fields_set \ {"genres"} |-> body[k]]

-----------------------------------------------------------------------------
(* Service layer. *)

MovieService_get_all_movies(db, skip, limit, title, genre, release_year) ==
    get_all_movies(db, skip, limit, title, genre, release_year)

MovieService_get_movie_details(db, movie_id) == get_movie_details(db, movie_id)

MovieService_create_movie(db, body, new_id) ==
    create_movie(db, model_dump(body), body.genres, new_id)

MovieService_update_movie(db, movie_id, body) ==
    update_movie(db, movie_id, model_dump_exclude_unset(body), body.genres)

MovieService_delete_movie(db, movie_id) == delete_movie(db, movie_id)

(* Mutant of MovieService_add_rating: no existence check before the insert. *)
MovieService_add_rating_Unchecked(db, movie_id, score, new_id, now) ==
    add_rating(db, movie_id, score, new_id, now)

MovieService_add_rating(db, movie_id, score, new_id, now) ==
    LET movie == get_movie_details(db, movie_id)
    IN  IF movie = None
        THEN [ok |-> TRUE, db |-> db, ret |-> None]
        ELSE add_rating(db, movie_id, score, new_id, now)

-----------------------------------------------------------------------------
(* Controller: one action per HTTP handler.  An exception that leaves a     *)
(* handler is answered by global_exception_handler: an IntegrityError with  *)
(* 400, an HTTPException with its own status code.                          *)

Store(db) ==
    /\ movies' = db.movies
    /\ movie_genres' = db.movie_genres
    /\ movie_ratings' = db.movie_ratings
    /\ UNCHANGED <<directors, genres>>

Reply(request, status, data) ==
    /\ req' = request
    /\ resp' = [status |-> status, data |-> data]

IntegrityErrorStatus == 400

(* skip = (page - 1) * size *)
Skip(page, size) == (page - 1) * size

get_movies(page, size, title, genre, release_year) ==
    LET skip   == Skip(page, size)
        result == MovieService_get_all_movies(DB, skip, size, title, genre, release_year)
    IN  /\ Reply([op |-> "get_movies", page |-> page, size |-> size,
                  title |-> title, genre |-> genre, release_year |-> release_year],
                 200,
                 Some([page |-> page, page_size |-> size,
                       total_items |-> result.total_items,
                       items |-> result.items]))
        /\ UNCHANGED <<tables, nextMovieId, nextRatingId, clock>>

get_movie(movie_id) ==
    LET movie == MovieService_get_movie_details(DB, movie_id)
    IN  /\ Reply([op |-> "get_movie", movie_id |-> movie_id],
                 IF movie = None THEN 404 ELSE 200, movie)
        /\ UNCHANGED <<tables, nextMovieId, nextRatingId, clock>>

add_movie(body) ==
    LET new_movie == MovieService_create_movie(DB, body, nextMovieId)
    IN  /\ nextMovieId <= MaxMovieId
        /\ Reply([op |-> "add_movie", body |-> body],
                 IF new_movie.ok THEN 201 ELSE IntegrityErrorStatus, new_movie.ret)
        /\ Store(new_movie.db)
        /\ nextMovieId' = IF new_movie.ok THEN nextMovieId + 1 ELSE nextMovieId
        /\ UNCHANGED <<nextRatingId, clock>>

router_update_movie(movie_id, body) ==
    LET updated_movie == MovieService_update_movie(DB, movie_id, body)
    IN  /\ Reply([op |-> "update_movie", movie_id |-> movie_id, body |-> body],
                 IF ~updated_movie.ok THEN IntegrityErrorStatus
                 ELSE IF updated_movie.ret = None THEN 404 ELSE 200,
                 updated_movie.ret)
        /\ Store(updated_movie.db)
        /\ UNCHANGED <<nextMovieId, nextRatingId, clock>>

router_delete_movie(movie_id) ==
    LET success == MovieService_delete_movie(DB, movie_id)
    IN  /\ Reply([op |-> "delete_movie", movie_id |-> movie_id],
                 IF success.ret THEN 204 ELSE 404, None)
        /\ Store(success.db)
        /\ UNCHANGED <<nextMovieId, nextRatingId, clock>>

(* Mutant of InvalidScore: the upper limit is off by one. *)
InvalidScore_UpperOffByOne(score) == score < 1 \/ score > 11

(* rating.score < 1 or rating.score > 10 *)
InvalidScore(score) == score < 1 \/ score > 10

(* The insert reads the server's now(); a second passes before the next one. *)
rate_movie(movie_id, score) ==
    LET request == [op |-> "rate_movie", movie_id |-> movie_id, score |-> score]
        result  == MovieService_add_rating(DB, movie_id, score, nextRatingId, clock)
    IN  IF InvalidScore(score)
        THEN /\ Reply(request, 422, None)
             /\ UNCHANGED <<tables, nextMovieId, nextRatingId, clock>>
        ELSE IF ~result.ok
        THEN /\ Reply(request, IntegrityErrorStatus, None)
             /\ UNCHANGED <<tables, nextMovieId, nextRatingId, clock>>
        ELSE IF result.ret = None
        THEN /\ Reply(request, 404, None)
             /\ UNCHANGED <<tables, nextMovieId, nextRatingId, clock>>
        ELSE /\ nextRatingId <= MaxRatingId
             /\ Reply(request, 201, result.ret)
             /\ Store(result.db)
             /\ nextRatingId' = nextRatingId + 1
             /\ clock' = clock + 1
             /\ UNCHANGED nextMovieId

-----------------------------------------------------------------------------
(* The seeded rows and the inputs the requests are drawn from. *)

SeedDirectors ==
    (1 :> [name |-> "Nolan", birth_year |-> Some(1970), description |-> None]) @@
    (2 :> [name |-> "Gerwig", birth_year |-> None, description |-> Some("bio")])

SeedGenres ==
    (1 :> [name |-> <<"a", "b">>, description |-> None]) @@
    (2 :> [name |-> <<"A">>, description |-> None])

MissingId == 9

MovieIds == 1 .. MaxMovieId

Body(fields_set, title, release_year, cast, director_id, genre_ids) ==
    [model_fields_set |-> fields_set, title |-> title,
     release_year |-> release_year, cast |-> cast,
     director_id |-> director_id, genres |-> genre_ids]

ListRequest(page, size, title, genre, release_year) ==
    [page |-> page, size |-> size, title |-> title, genre |-> genre,
     release_year |-> release_year]

(* The concurrent callers (request threads of the web server), and a caller *)
(* with no handler call in progress.                                        *)
Callers == {"c1", "c2"}

Idle == [pc |-> "idle", movie_id |-> 0, score |-> 0, deleted |-> {},
         body |-> None, genres |-> {}]

Init ==
    /\ directors = SeedDirectors
    /\ genres = SeedGenres
    /\ movies = [m \in {} |-> 0]
    /\ movie_genres = {}
    /\ movie_ratings = [r \in {} |-> 0]
    /\ nextMovieId = 1
    /\ nextRatingId = 1
    /\ clock = 100
    /\ req = [op |-> "none"]
    /\ resp = [status |-> 0, data |-> None]
    /\ calls = [c \in Callers |-> Idle]

(* The requests, each handled from start to end with no other call in      *)
(* between, with their inputs drawn from the given sets.                    *)
ListMovies(lists) ==
    /\ \E l \in lists : get_movies(l.page, l.size, l.title, l.genre, l.release_year)
    /\ UNCHANGED calls

ReadMovie ==
    /\ \E id \in MovieIds : get_movie(id)
    /\ UNCHANGED calls

CreateMovie(creates) ==
    /\ \E body \in creates : add_movie(body)
    /\ UNCHANGED calls

UpdateMovie(updates) ==
    /\ \E id \in MovieIds, body \in updates : router_update_movie(id, body)
    /\ UNCHANGED calls

DeleteMovie ==
    /\ \E id \in MovieIds : router_delete_movie(id)
    /\ UNCHANGED calls

RateMovie(scores) ==
    /\ \E id \in MovieIds, score \in scores : rate_movie(id, score)
    /\ UNCHANGED calls

-----------------------------------------------------------------------------
(* Spec: every handler; movies of one kind, updated in their scalar         *)
(* attributes, and rated with every kind of score.                          *)

RatedCreates ==
    { Body({"title", "release_year", "director_id", "genres"},
           Some(<<"A">>), Some(2000), None, Some(1), Some(<<1, 2>>)),
      Body({"release_year", "director_id"},
           None, Some(2000), None, Some(1), None),
      Body({"title", "release_year", "director_id"},
           Some(<<"A">>), Some(2000), None, Some(MissingId), None) }

RatedUpdates ==
    { Body({"title", "cast"}, Some(<<"a", "b">>), None, Some("cast"), None, None),
      Body({"title", "release_year", "director_id"},
           None, Some(1999), None, Some(2), None),
      Body({"cast", "director_id"}, None, None, Some("cast"), Some(MissingId), None) }

Scores == {0, 8, 10, 11}

RatedLists == { ListRequest(1, 2, None, None, None) }

Next ==
    \/ ListMovies(RatedLists)
    \/ ReadMovie
    \/ CreateMovie(RatedCreates)
    \/ UpdateMovie(RatedUpdates)
    \/ DeleteMovie
    \/ RateMovie(Scores)

Spec == Init /\ [][Next]_vars

-----------------------------------------------------------------------------
(* Properties of the rating and delete requests, checked under Spec. *)

Abs(x) == IF x < 0 THEN -x ELSE x

Counters == <<nextMovieId, nextRatingId, clock>>

(* C1: a rating request that reaches MovieService.add_rating (its score is *)
(* valid) for a movie_id with no movie row is answered not-found (None,    *)
(* 404) and writes nothing: every table is as it was before the call.      *)
C1_MissingMovieWritesNothing ==
    [][ (/\ req'.op = "rate_movie"
         /\ ~InvalidScore(req'.score)
         /\ req'.movie_id \notin DOMAIN movies)
        => /\ resp'.status = 404
           /\ resp'.data = None
           /\ MovieService_add_rating(DB, req'.movie_id, req'.score,
                                      nextRatingId, clock).ret = None
           /\ UNCHANGED tables ]_vars

(* C1 witness: a valid score was sent for a movie id that has no row while *)
(* other movies and ratings exist, and the answer was 404.                 *)
C1_Witness ==
    /\ req.op = "rate_movie"
    /\ req.score = 8
    /\ req.movie_id \notin DOMAIN movies
    /\ resp.status = 404
    /\ DOMAIN movies # {}
    /\ DOMAIN movie_ratings # {}

(* C2: every stored rating row has a score in 1..10, and a rating request  *)
(* whose score is below 1 or above 10 is answered 422 and leaves the store *)
(* (tables and id sequences) unchanged.                                    *)
C2_ScoresInRange ==
    [][ /\ \A r \in DOMAIN movie_ratings' : movie_ratings'[r].score \in 1..10
        /\ (req'.op = "rate_movie" /\ (req'.score < 1 \/ req'.score > 10))
            => /\ resp'.status = 422
               /\ UNCHANGED tables
               /\ UNCHANGED Counters ]_vars

(* C2 witness: a score of 11 for an existing, already rated movie was      *)
(* answered 422.                                                           *)
C2_Witness ==
    /\ req.op = "rate_movie"
    /\ req.score = 11
    /\ req.movie_id \in DOMAIN movies
    /\ RatingsOf(DB, req.movie_id) # {}
    /\ resp.status = 422

(* C3: a delete of an existing movie m succeeds and leaves no rating row,  *)
(* no movie_genres row and no movie row of m, so get_movie_details(m) is   *)
(* not-found; genres, directors and the rows of every other movie (its     *)
(* movie row, links and ratings) are unchanged.                            *)
C3_DeleteCascades ==
    [][ (req'.op = "delete_movie" /\ req'.movie_id \in DOMAIN movies)
        => LET m == req'.movie_id
           IN  /\ resp'.status = 204
               /\ m \notin DOMAIN movies'
               /\ \A r \in DOMAIN movie_ratings' : movie_ratings'[r].movie_id # m
               /\ \A l \in movie_genres' : l[1] # m
               /\ get_movie_details(DB', m) = None
               /\ genres' = genres
               /\ directors' = directors
               /\ DOMAIN movies' = DOMAIN movies \ {m}
               /\ \A o \in DOMAIN movies' : movies'[o] = movies[o]
               /\ movie_genres' = {l \in movie_genres : l[1] # m}
               /\ DOMAIN movie_ratings' =
                    {r \in DOMAIN movie_ratings : movie_ratings[r].movie_id # m}
               /\ \A r \in DOMAIN movie_ratings' :
                    movie_ratings'[r] = movie_ratings[r] ]_vars

(* C3 witness: movie 1, which had ratings, has just been deleted (its      *)
(* rating ids are gone) while movie 2 keeps its links and its ratings.     *)
C3_Witness ==
    /\ req.op = "delete_movie"
    /\ req.movie_id = 1
    /\ resp.status = 204
    /\ 1 \notin DOMAIN movies
    /\ 2 \in DOMAIN movies
    /\ GenresOf(DB, 2) # {}
    /\ RatingsOf(DB, 2) # {}
    /\ Cardinality(DOMAIN movie_ratings) < nextRatingId - 1

(* The movie views a response carries. *)
ViewsIn(request, response) ==
    IF request.op = "get_movie" /\ response.status = 200
    THEN response.data
    ELSE IF request.op = "get_movies"
    THEN SeqElems(The(response.data).items)
    ELSE {}

ViewCountOk(v) ==
    /\ v.ratings_count = Cardinality(RatingsOf(DB, v.id))
    /\ v.average_rating = None <=> RatingsOf(DB, v.id) = {}

(* C4 as stated: in the view of a movie returned by get_movie_details and  *)
(* by list, ratings_count is the number of the movie's rating rows and     *)
(* average_rating is None exactly when there are none, otherwise equal to  *)
(* the arithmetic mean of the scores.                                      *)
C4_Original_ExactMean ==
    \A v \in ViewsIn(req, resp) :
        /\ ViewCountOk(v)
        /\ v.average_rating # None =>
            The(v.average_rating) * Cardinality(RatingsOf(DB, v.id))
                = 10 * SumScores(movie_ratings, RatingsOf(DB, v.id))

(* C4 amended: ratings_count is the number of the movie's rating rows and  *)
(* average_rating is None exactly when there are none, otherwise the       *)
(* arithmetic mean of the scores rounded to one decimal place (within 0.05 *)
(* of the mean, as a multiple of 0.1).                                     *)
C4_RoundedMean ==
    \A v \in ViewsIn(req, resp) :
        /\ ViewCountOk(v)
        /\ v.average_rating # None =>
            LET n == Cardinality(RatingsOf(DB, v.id))
                s == SumScores(movie_ratings, RatingsOf(DB, v.id))
            IN  2 * Abs(The(v.average_rating) * n - 10 * s) <= n

(* C4 witness: the detail view of a movie rated 8, 8 and 10 reports three  *)
(* ratings and 8.7, and the list reports the same for it.                  *)
C4_Witness ==
    /\ req.op = "get_movie"
    /\ resp.status = 200
    /\ The(resp.data).ratings_count = 3
    /\ The(resp.data).average_rating = Some(87)
    /\ \E m \in DOMAIN movies : RatingsOf(DB, m) = {}

-----------------------------------------------------------------------------
(* Properties of update and create, checked under Spec. *)

OtherMoviesUnchanged(m) ==
    /\ DOMAIN movies' = DOMAIN movies
    /\ \A o \in DOMAIN movies \ {m} :
        /\ movies'[o] = movies[o]
        /\ GenresOf(DB', o) = GenresOf(DB, o)

ViewShowsRow(v, db, m) ==
    /\ v.id = m
    /\ v.title = db.movies[m].title
    /\ v.release_year = db.movies[m].release_year
    /\ v.cast = db.movies[m].cast
    /\ (v.director = None <=> db.movies[m].director_id = None)
    /\ v.director # None => The(v.director).id = The(db.movies[m].director_id)

UpdateEffect(m, body) ==
    /\ resp'.status = 200
    /\ \A k \in MovieColumns :
        movies'[m][k] = IF k \in body.model_fields_set /\ body[k] # None
                        THEN body[k] ELSE movies[m][k]
    /\ movie_ratings' = movie_ratings
    /\ OtherMoviesUnchanged(m)
    /\ resp'.data # None
    /\ ViewShowsRow(The(resp'.data), DB', m)

(* C9 as stated: an update of an existing movie gives every scalar         *)
(* attribute supplied with a non-null value that value, keeps every        *)
(* attribute omitted or supplied as null, leaves the ratings and every     *)
(* other movie unchanged and returns the post-update values.               *)
C9_Original_SuppliedValuesTaken ==
    [][ (req'.op = "update_movie" /\ req'.movie_id \in DOMAIN movies)
        => UpdateEffect(req'.movie_id, req'.body) ]_vars

(* C9 amended: the same, provided a director_id supplied with a non-null   *)
(* value is the id of a director row; an update whose director_id matches  *)
(* no director row is refused with an error and changes no table.          *)
C9_PartialUpdate ==
    [][ (req'.op = "update_movie" /\ req'.movie_id \in DOMAIN movies)
        => IF req'.body.director_id # None
              /\ The(req'.body.director_id) \notin DOMAIN directors
           THEN /\ resp'.status = IntegrityErrorStatus
                /\ UNCHANGED tables
           ELSE UpdateEffect(req'.movie_id, req'.body) ]_vars

(* C9 witness: a rated movie, whose title and cast an earlier update set,  *)
(* has just been sent release_year and director_id with a null title: it   *)
(* keeps title and cast and has the new year and director; another movie   *)
(* exists.                                                                 *)
C9_Witness ==
    /\ req.op = "update_movie"
    /\ resp.status = 200
    /\ req.body.model_fields_set = {"title", "release_year", "director_id"}
    /\ req.body.title = None
    /\ movies[req.movie_id] = [title |-> Some(<<"a", "b">>), release_year |-> Some(1999),
                               cast |-> Some("cast"), director_id |-> Some(2)]
    /\ RatingsOf(DB, req.movie_id) # {}
    /\ Cardinality(DOMAIN movies) = 2

(* C11: a successful add_rating returns a record with exactly the fields   *)
(* rating_id, movie_id, score and created_at; movie_id and score are the    *)
(* inputs, rating_id is the id of the row just inserted and differs from    *)
(* every rating id issued before, created_at is that row's server-assigned  *)
(* timestamp.                                                               *)
C11_AddRatingRecord ==
    [][ (req'.op = "rate_movie" /\ resp'.status = 201)
        => LET data == The(resp'.data)
           IN  /\ DOMAIN data = {"rating_id", "movie_id", "score", "created_at"}
               /\ data.movie_id = req'.movie_id
               /\ data.score = req'.score
               /\ data.rating_id \in DOMAIN movie_ratings' \ DOMAIN movie_ratings
               /\ \A r \in 1 .. (nextRatingId - 1) : data.rating_id # r
               /\ movie_ratings'[data.rating_id].rated_at = clock
               /\ data.created_at = strftime(clock) ]_vars

(* C10: the view create_movie returns for a new movie that has a director  *)
(* carries the director's id, name, birth_year and description, as the     *)
(* view get_movie_details returns for that movie right afterwards, with    *)
(* ratings_count 0 and no average_rating.                                  *)
C10_CreateReturnsFullDetail ==
    (req.op = "add_movie" /\ resp.status = 201)
    => LET v == The(resp.data)
       IN  /\ v.ratings_count = 0
           /\ v.average_rating = None
           /\ v.director # None =>
                /\ DOMAIN The(v.director) = {"id", "name", "birth_year", "description"}
                /\ Some(v) = get_movie_details(DB, v.id)

(* C12: delete_movie(m) returns true (204) exactly when a movie row m     *)
(* existed at the call and false (404) otherwise; update_movie(m, ...)      *)
(* returns not-found (None, 404) when no movie row m exists; in the false   *)
(* and not-found cases every table is unchanged; and once delete_movie(m)   *)
(* has returned true, m is gone and only a create brings a movie row into   *)
(* being, so a second delete_movie(m) with no create in between returns     *)
(* false.                                                                   *)
C12_DeleteAndUpdateNotFound ==
    [][ /\ req'.op = "delete_movie" =>
            /\ (resp'.status = 204) <=> (req'.movie_id \in DOMAIN movies)
            /\ (resp'.status = 404) <=> (req'.movie_id \notin DOMAIN movies)
            /\ resp'.status = 404 => tables' = tables
            /\ resp'.status = 204 => req'.movie_id \notin DOMAIN movies'
        /\ (req'.op = "update_movie" /\ req'.movie_id \notin DOMAIN movies) =>
            /\ resp'.status = 404
            /\ resp'.data = None
            /\ tables' = tables
        /\ req'.op # "add_movie" => DOMAIN movies' \subseteq DOMAIN movies
        /\ (/\ req.op = "delete_movie" /\ resp.status = 204
            /\ req'.op = "delete_movie" /\ req'.movie_id = req.movie_id)
           => resp'.status = 404 ]_vars

(* C12 witness: a movie that has ratings was deleted and is deleted again, *)
(* which is answered false while another movie is in the store.            *)
C12_Witness ==
    /\ req.op = "delete_movie"
    /\ resp.status = 404
    /\ req.movie_id < nextMovieId
    /\ movies # <<>>
    /\ nextRatingId > 1

(* C15: across list, get_movie_details, create_movie, update_movie,        *)
(* delete_movie and add_rating calls, an existing rating row never changes  *)
(* its score, movie_id or timestamp and is removed only by the delete of    *)
(* its owning movie; a successful add_rating adds exactly one rating row    *)
(* and leaves the movie rows, genre rows, genre links and all other rating  *)
(* rows unchanged.                                                          *)
C15_RatingsImmutable ==
    [][ /\ \A r \in DOMAIN movie_ratings :
            IF r \in DOMAIN movie_ratings'
            THEN /\ movie_ratings'[r].score = movie_ratings[r].score
                 /\ movie_ratings'[r].movie_id = movie_ratings[r].movie_id
                 /\ movie_ratings'[r].rated_at = movie_ratings[r].rated_at
            ELSE /\ req'.op = "delete_movie"
                 /\ resp'.status = 204
                 /\ req'.movie_id = movie_ratings[r].movie_id
                 /\ req'.movie_id \in DOMAIN movies \ DOMAIN movies'
        /\ (req'.op = "rate_movie" /\ resp'.status = 201) =>
            /\ DOMAIN movie_ratings \subseteq DOMAIN movie_ratings'
            /\ Cardinality(DOMAIN movie_ratings' \ DOMAIN movie_ratings) = 1
            /\ movies' = movies
            /\ genres' = genres
            /\ movie_genres' = movie_genres ]_vars

(* C15 witness: a rating has just been added to a movie that already had a *)
(* rating, after an update of that movie, with another movie in the store.  *)
C15_Witness ==
    /\ req.op = "rate_movie"
    /\ resp.status = 201
    /\ Cardinality(RatingsOf(DB, req.movie_id)) >= 2
    /\ movies[req.movie_id].cast = Some("cast")
    /\ Cardinality(DOMAIN movies) = 2

-----------------------------------------------------------------------------
(* SpecList: movies of several titles, years and genre sets are created and *)
(* deleted, and listed under every combination of page, size and filters.   *)

ListCreates ==
    { Body({"title", "release_year", "genres"},
           Some(<<"A">>), Some(2000), None, None, Some(<<1, 2>>)),
      Body({"title", "release_year", "genres"},
           Some(<<"a", "b">>), Some(1999), None, None, Some(<<1>>)),
      Body({"title", "release_year"},
           Some(<<"a", "b">>), Some(2000), None, None, None) }

Pages == 1 .. (MaxMovieId + 1)
Sizes == {1, 2}
TitleFilters == {None, Some(<<"a">>), Some(<<"B">>)}
GenreFilters == {None, Some(<<"a">>), Some(<<"B">>)}
YearFilters == {None, Some(0), Some(2000)}

ListRequests ==
    {ListRequest(p, n, t, g, y) :
        p \in Pages, n \in Sizes, t \in TitleFilters, g \in GenreFilters,
        y \in YearFilters}

NextList ==
    \/ ListMovies(ListRequests)
    \/ CreateMovie(ListCreates)
    \/ DeleteMovie

SpecList == Init /\ [][NextList]_vars

(* Case-insensitive substring. *)
Contains(s, t) ==
    \E i \in 0 .. (Len(s) - Len(t)) :
        \A j \in 1 .. Len(t) : Lower(s[i + j]) = Lower(t[j])

(* The movies that satisfy all the filters a request supplies. *)
MoviesSatisfying(title, genre, release_year) ==
    {m \in DOMAIN movies :
        /\ title # None => Contains(The(movies[m].title), The(title))
        /\ release_year # None => movies[m].release_year = release_year
        /\ genre # None =>
            \E g \in GenresOf(DB, m) : Contains(genres[g].name, The(genre))}

ItemIds(items) == [i \in 1 .. Len(items) |-> items[i].id]

NoRepeats(ids) == \A i, j \in 1 .. Len(ids) : i # j => ids[i] # ids[j]

(* C5: whatever the page and size, total_items of a list response is the   *)
(* number of distinct movies that satisfy all the supplied filters (title  *)
(* substring, exact release_year, some genre whose name contains the genre *)
(* text), and no movie appears twice in the items.                         *)
C5_TotalCountsMatchingMovies ==
    req.op = "get_movies"
    => LET data == The(resp.data)
       IN  /\ data.total_items =
                Cardinality(MoviesSatisfying(req.title, req.genre, req.release_year))
           /\ NoRepeats(ItemIds(data.items))

PageIds(page, size, title, genre, release_year) ==
    ItemIds(get_all_movies(DB, Skip(page, size), size, title, genre, release_year).items)

(* C6: for page >= 1 and size >= 1 the items of a list response are the    *)
(* positions (page-1)*size .. (page-1)*size + size - 1 of the matching     *)
(* movies (those that satisfy the supplied filters) in ascending id order; *)
(* and, the store held fixed, the pages of one size are pairwise disjoint  *)
(* and together hold every matching movie exactly once.                    *)
C6_Pagination ==
    /\ req.op = "get_movies" =>
        LET data   == The(resp.data)
            sorted == SortAsc(MoviesSatisfying(req.title, req.genre, req.release_year))
            first  == (req.page - 1) * req.size + 1
            last   == Min((req.page - 1) * req.size + req.size, Len(sorted))
        IN  ItemIds(data.items) = SubSeq(sorted, first, last)
    /\ \A n \in Sizes, t \in TitleFilters, g \in GenreFilters, y \in YearFilters :
        /\ \A p, q \in Pages : p # q =>
                SeqElems(PageIds(p, n, t, g, y)) \cap SeqElems(PageIds(q, n, t, g, y)) = {}
        /\ \A p \in Pages : NoRepeats(PageIds(p, n, t, g, y))
        /\ UNION {SeqElems(PageIds(p, n, t, g, y)) : p \in Pages}
                = MoviesSatisfying(t, g, y)

-----------------------------------------------------------------------------
(* SpecGenres: movies are created and updated with every kind of genre id   *)
(* list (omitted, null, empty, with and without ids of no genre row).       *)

GenreCreates ==
    { Body({"title", "release_year", "genres"},
           Some(<<"A">>), Some(2000), None, None, Some(<<1, 2, MissingId>>)),
      Body({"title", "release_year", "genres"},
           Some(<<"a", "b">>), Some(2000), None, None, Some(<<MissingId>>)),
      Body({"title", "release_year"},
           Some(<<"a", "b">>), Some(2000), None, None, None),
      Body({"release_year", "genres"},
           None, Some(2000), None, None, Some(<<1, MissingId>>)) }

GenreUpdates ==
    { Body(f, None, None, None, None, g) :
        f \in {{"genres"}},
        g \in {None, Some(<<>>), Some(<<1>>), Some(<<2, MissingId>>), Some(<<2, 1, 2>>)} }
    \cup
    { Body({"cast"}, None, None, Some("cast"), None, None),
      Body({"cast", "genres"}, None, None, Some("cast"), None, Some(<<1>>)),
      Body({"director_id", "genres"}, None, None, None, Some(MissingId), Some(<<>>)),
      Body({"director_id", "genres"}, None, None, None, Some(MissingId),
           Some(<<1, MissingId>>)) }

NextGenres ==
    \/ CreateMovie(GenreCreates)
    \/ UpdateMovie(GenreUpdates)
    \/ ReadMovie
    \/ DeleteMovie

SpecGenres == Init /\ [][NextGenres]_vars

HasMissingGenre(genre_ids) ==
    \E i \in 1 .. Len(genre_ids) : genre_ids[i] \notin DOMAIN genres

Existing(genre_ids) == SeqElems(genre_ids) \cap DOMAIN genres

(* The constraints of the movies table on a row. *)
RowAcceptable(row) ==
    /\ row.title # None
    /\ row.release_year # None
    /\ row.director_id # None => The(row.director_id) \in DOMAIN directors

NoDanglingLinks ==
    /\ genres' = genres
    /\ \A l \in movie_genres' : l[2] \in DOMAIN genres

CreatedWith(body) ==
    /\ resp'.status = 201
    /\ GenresOf(DB', nextMovieId) = Existing(The(body.genres))
    /\ The(resp'.data).genres = {genres[g].name : g \in Existing(The(body.genres))}

UpdatedWith(m, body) ==
    /\ resp'.status = 200
    /\ GenresOf(DB', m) = Existing(The(body.genres))
    /\ The(resp'.data).genres = {genres[g].name : g \in Existing(The(body.genres))}

(* C7 as stated: a create, or an update of an existing movie, whose genre  *)
(* id list holds ids of no genre row raises no error and leaves the movie  *)
(* linked to exactly the listed genres that exist; no genre row is created *)
(* and no link row references a missing genre.                             *)
C7_Original_MissingGenresNoError ==
    [][ /\ (/\ req'.op = "add_movie"
            /\ req'.body.genres # None
            /\ HasMissingGenre(The(req'.body.genres)))
           => CreatedWith(req'.body) /\ NoDanglingLinks
        /\ (/\ req'.op = "update_movie"
            /\ req'.movie_id \in DOMAIN movies
            /\ req'.body.genres # None
            /\ HasMissingGenre(The(req'.body.genres)))
           => UpdatedWith(req'.movie_id, req'.body) /\ NoDanglingLinks ]_vars

(* C7 amended: the same for a create whose title and release_year are     *)
(* present and whose director_id is null or the id of a director row, and  *)
(* for an update whose director_id is; any other call is refused with an   *)
(* error, whatever its genre ids, and writes nothing.                      *)
C7_MissingGenresDropped ==
    [][ /\ (/\ req'.op = "add_movie"
            /\ req'.body.genres # None
            /\ HasMissingGenre(The(req'.body.genres)))
           => /\ NoDanglingLinks
              /\ IF RowAcceptable(req'.body)
                 THEN CreatedWith(req'.body)
                 ELSE resp'.status = IntegrityErrorStatus /\ UNCHANGED tables
        /\ (/\ req'.op = "update_movie"
            /\ req'.movie_id \in DOMAIN movies
            /\ req'.body.genres # None
            /\ HasMissingGenre(The(req'.body.genres)))
           => /\ NoDanglingLinks
              /\ IF req'.body.director_id # None
                    /\ The(req'.body.director_id) \notin DOMAIN directors
                 THEN resp'.status = IntegrityErrorStatus /\ UNCHANGED tables
                 ELSE UpdatedWith(req'.movie_id, req'.body) ]_vars

(* C7 witness: a movie created with genre ids 1, 2 and a missing id is     *)
(* linked to genres 1 and 2.                                               *)
C7_Witness ==
    /\ req.op = "add_movie"
    /\ req.body.genres = Some(<<1, 2, MissingId>>)
    /\ resp.status = 201
    /\ GenresOf(DB, The(resp.data).id) = {1, 2}
    /\ Cardinality(DOMAIN movies) = 2

(* C8 as stated: an update of an existing movie with genre ids omitted     *)
(* (None) keeps the movie's genre set; with genre ids supplied, the empty  *)
(* list included, the genre set becomes exactly the supplied ids that      *)
(* exist.                                                                  *)
C8_Original_GenresReplaced ==
    [][ (req'.op = "update_movie" /\ req'.movie_id \in DOMAIN movies)
        => LET m == req'.movie_id
           IN  IF req'.body.genres = None
               THEN GenresOf(DB', m) = GenresOf(DB, m)
               ELSE GenresOf(DB', m) = Existing(The(req'.body.genres)) ]_vars

(* C8 amended: the same for an update that is accepted; an update whose    *)
(* director_id matches no director row is refused with an error and leaves *)
(* the genre set, like every table, as it was.  The links of other movies  *)
(* never change.                                                           *)
C8_GenresReplacedOrKept ==
    [][ (req'.op = "update_movie" /\ req'.movie_id \in DOMAIN movies)
        => LET m == req'.movie_id
           IN  /\ \A o \in DOMAIN movies \ {m} : GenresOf(DB', o) = GenresOf(DB, o)
               /\ IF req'.body.director_id # None
                     /\ The(req'.body.director_id) \notin DOMAIN directors
                  THEN resp'.status = IntegrityErrorStatus /\ UNCHANGED tables
                  ELSE /\ resp'.status = 200
                       /\ IF req'.body.genres = None
                          THEN GenresOf(DB', m) = GenresOf(DB, m)
                          ELSE GenresOf(DB', m) = Existing(The(req'.body.genres)) ]_vars

(* C8 witness: a movie created with genres 1 and 2 has just been updated   *)
(* with the list [2, missing] and is linked to genre 2 alone, while the    *)
(* other movie keeps both its genres.                                      *)
C8_Witness ==
    /\ req.op = "update_movie"
    /\ req.body.genres = Some(<<2, MissingId>>)
    /\ resp.status = 200
    /\ movies[req.movie_id].title = Some(<<"A">>)
    /\ GenresOf(DB, req.movie_id) = {2}
    /\ \E o \in DOMAIN movies \ {req.movie_id} : GenresOf(DB, o) = {1, 2}

-----------------------------------------------------------------------------
(* SpecConc: the callers run their handler calls concurrently.  Each call   *)
(* has its own session; a step is one round trip to the database (a query, *)
(* or the flush and COMMIT of the session's pending writes).  The tables    *)
(* hold the committed rows: a session's writes reach them at its COMMIT,    *)
(* where the database enforces the foreign keys the models declare.         *)

Enter(c, pc, movie_id, score) ==
    calls' = [calls EXCEPT ![c] = [@ EXCEPT !.pc = pc, !.movie_id = movie_id,
                                             !.score = score]]

Return(c) == calls' = [calls EXCEPT ![c] = [@ EXCEPT !.pc = "idle"]]

(* rate_movie up to the service's existence check: score validation, then  *)
(* movie = self.movie_repo.get_movie_details(movie_id).                     *)
rate_movie_check(c, movie_id, score) ==
    LET request == [op |-> "rate_movie", caller |-> c,
                    movie_id |-> movie_id, score |-> score]
    IN  /\ calls[c].pc = "idle"
        /\ IF InvalidScore(score)
           THEN Reply(request, 422, None) /\ Enter(c, "idle", movie_id, score)
           ELSE IF get_movie_details(DB, movie_id) = None
           THEN Reply(request, 404, None) /\ Enter(c, "idle", movie_id, score)
           ELSE Enter(c, "insert", movie_id, score) /\ UNCHANGED <<req, resp>>
        /\ UNCHANGED <<tables, nextMovieId, nextRatingId, clock>>

(* MovieRepository.add_rating: db.add(new_rating); db.commit().  The INSERT *)
(* is refused (IntegrityError, 400) when movie_id matches no movie row.     *)
rate_movie_insert(c) ==
    LET movie_id == calls[c].movie_id
        score    == calls[c].score
        request  == [op |-> "rate_movie", caller |-> c,
                     movie_id |-> movie_id, score |-> score]
        result   == add_rating(DB, movie_id, score, nextRatingId, clock)
    IN  /\ calls[c].pc = "insert"
        /\ nextRatingId <= MaxRatingId
        /\ Return(c)
        /\ IF result.ok
           THEN /\ Reply(request, 201, result.ret)
                /\ Store(result.db)
                /\ nextRatingId' = nextRatingId + 1
                /\ clock' = clock + 1
                /\ UNCHANGED nextMovieId
           ELSE /\ Reply(request, IntegrityErrorStatus, None)
                /\ UNCHANGED <<tables, nextMovieId, nextRatingId, clock>>

(* delete_movie: movie = query(Movie).filter(Movie.id == movie_id).first() *)
delete_movie_select(c, movie_id) ==
    LET request == [op |-> "delete_movie", caller |-> c, movie_id |-> movie_id]
    IN  /\ calls[c].pc = "idle"
        /\ IF movie_id \in DOMAIN movies
           THEN Enter(c, "ratings", movie_id, 0) /\ UNCHANGED <<req, resp>>
           ELSE Reply(request, 404, None) /\ Enter(c, "idle", movie_id, 0)
        /\ UNCHANGED <<tables, nextMovieId, nextRatingId, clock>>

(* delete_movie: query(MovieRating).filter(movie_id == id).delete(), which *)
(* deletes, in the session's transaction, the rating rows committed so far. *)
delete_movie_ratings(c) ==
    /\ calls[c].pc = "ratings"
    /\ calls' = [calls EXCEPT ![c] =
            [@ EXCEPT !.pc = "commit", !.deleted = RatingsOf(DB, calls[c].movie_id)]]
    /\ UNCHANGED <<tables, nextMovieId, nextRatingId, clock, req, resp>>

(* Mutant of CascadeRatings: only the rows of the bulk delete are removed. *)
CascadeRatings_None(db, movie_id, deleted) == deleted

(* The rating rows a committed delete of the movie removes: those of the    *)
(* bulk delete, and those the delete of the movie row cascades to           *)
(* (relationship cascade="all, delete-orphan"; ForeignKey ondelete=CASCADE).*)
CascadeRatings(db, movie_id, deleted) == deleted \cup RatingsOf(db, movie_id)

StaleDataStatus == 500

(* delete_movie: db.delete(movie); db.commit().  When the movie row is no   *)
(* longer there the DELETE matches no row, the session raises and rolls     *)
(* back, and the handler answers 500.                                       *)
delete_movie_commit(c) ==
    LET movie_id == calls[c].movie_id
        request  == [op |-> "delete_movie", caller |-> c, movie_id |-> movie_id]
        gone     == CascadeRatings(DB, movie_id, calls[c].deleted)
    IN  /\ calls[c].pc = "commit"
        /\ Return(c)
        /\ IF movie_id \in DOMAIN movies
           THEN /\ Reply(request, 204, None)
                /\ movie_ratings' =
                        [r \in DOMAIN movie_ratings \ gone |-> movie_ratings[r]]
                /\ movie_genres' = {l \in movie_genres : l[1] # movie_id}
                /\ movies' = [m \in DOMAIN movies \ {movie_id} |-> movies[m]]
                /\ UNCHANGED <<directors, genres>>
           ELSE /\ Reply(request, StaleDataStatus, None)
                /\ UNCHANGED tables
        /\ UNCHANGED <<nextMovieId, nextRatingId, clock>>

ConcCreates ==
    { Body({"title", "release_year", "director_id", "genres"},
           Some(<<"A">>), Some(2000), None, Some(1), Some(<<1, 2>>)) }

ConcScores == {8, 11}

RateCheck ==
    \E c \in Callers, id \in MovieIds, score \in ConcScores :
        rate_movie_check(c, id, score)

RateInsert == \E c \in Callers : rate_movie_insert(c)

DeleteSelect == \E c \in Callers, id \in MovieIds : delete_movie_select(c, id)

DeleteRatings == \E c \in Callers : delete_movie_ratings(c)

DeleteCommit == \E c \in Callers : delete_movie_commit(c)

NextConc ==
    \/ CreateMovie(ConcCreates)
    \/ RateCheck
    \/ RateInsert
    \/ DeleteSelect
    \/ DeleteRatings
    \/ DeleteCommit

SpecConc == Init /\ [][NextConc]_vars

(* C13: with callers running concurrently, in every reachable state every  *)
(* rating row's movie_id is the id of an existing movie row; so when an     *)
(* add_rating (existence check, then insert and commit) interleaves with a  *)
(* delete_movie of the same movie, no rating row of the movie is left once  *)
(* the movie is deleted.                                                    *)
C13_NoOrphanRatings ==
    \A r \in DOMAIN movie_ratings : movie_ratings[r].movie_id \in DOMAIN movies

(* C13 witness: a delete of the only movie ever created has committed, and *)
(* a rating that was inserted after the delete's bulk delete of the ratings *)
(* (it is not among the rows that statement deleted) is gone with it.       *)
C13_Witness ==
    /\ req.op = "delete_movie"
    /\ resp.status = 204
    /\ nextMovieId = 2
    /\ calls[req.caller].pc = "idle"
    /\ calls[req.caller].movie_id = req.movie_id
    /\ \E r \in 1 .. (nextRatingId - 1) : r \notin calls[req.caller].deleted
    /\ movie_ratings = <<>>

-----------------------------------------------------------------------------
(* SpecCreate: callers create movies concurrently, each create in two       *)
(* steps (the genre query, then the flush and COMMIT), while other callers  *)
(* read the movies.                                                         *)

(* create_movie up to the commit: the Movie object is built, and the       *)
(* query that resolves genre_ids when the list is not empty.               *)
create_movie_resolve(c, body) ==
    /\ calls[c].pc = "idle"
    /\ nextMovieId <= MaxMovieId
    /\ calls' = [calls EXCEPT ![c] =
            [@ EXCEPT !.pc = "create", !.body = Some(body),
                      !.genres = IF Truthy(body.genres, <<>>)
                                 THEN ResolveGenres(DB, The(body.genres))
                                 ELSE {}]]
    /\ UNCHANGED <<tables, nextMovieId, nextRatingId, clock, req, resp>>

(* create_movie: db.add(new_movie); db.commit().  The flush inserts the     *)
(* movie row and its movie_genres rows and the COMMIT publishes them        *)
(* together; a row the movies table refuses raises IntegrityError, the      *)
(* transaction is not committed and the handler answers 400.                *)
create_movie_commit(c) ==
    LET body      == The(calls[c].body)
        request   == [op |-> "add_movie", caller |-> c, body |-> body]
        new_movie == model_dump(body)
        after     == WithMovie(DB, nextMovieId, new_movie, calls[c].genres)
    IN  /\ calls[c].pc = "create"
        /\ nextMovieId <= MaxMovieId
        /\ Return(c)
        /\ IF MovieRowOk(DB, new_movie)
           THEN /\ Reply(request, 201,
                         Some(format_movie_response(after, nextMovieId, FALSE)))
                /\ Store(after)
                /\ nextMovieId' = nextMovieId + 1
           ELSE /\ Reply(request, IntegrityErrorStatus, None)
                /\ UNCHANGED <<tables, nextMovieId>>
        /\ UNCHANGED <<nextRatingId, clock>>

(* The bodies created: bodies of one title ask for the same genres. *)
TxCreates ==
    { Body({"title", "release_year", "director_id", "genres"},
           Some(<<"A">>), Some(2000), None, Some(1), Some(<<1, 2, MissingId>>)),
      Body({"title", "release_year"},
           Some(<<"a", "b">>), Some(2000), None, None, None),
      Body({"title", "release_year", "director_id", "genres"},
           Some(<<"A">>), Some(2000), None, Some(MissingId), Some(<<1, 2, MissingId>>)),
      Body({"release_year", "genres"},
           None, Some(2000), None, None, Some(<<1>>)) }

CreateResolve ==
    \E c \in Callers, body \in TxCreates : create_movie_resolve(c, body)

CreateCommit == \E c \in Callers : create_movie_commit(c)

NextCreate ==
    \/ CreateResolve
    \/ CreateCommit
    \/ ReadMovie

SpecCreate == Init /\ [][NextCreate]_vars

(* The genres a create with the given title asks for and that exist. *)
IntendedGenres(title) ==
    LET body == CHOOSE b \in TxCreates : b.title = title
    IN  IF body.genres = None THEN {}
        ELSE SeqElems(The(body.genres)) \cap DOMAIN genres

RefusedRow(body) ==
    \/ body.title = None
    \/ body.release_year = None
    \/ body.director_id # None /\ The(body.director_id) \notin DOMAIN directors

(* C14: create_movie writes the movie row and all its genre link rows in   *)
(* one commit: in every committed state, and in every view a concurrent     *)
(* reader gets, a movie row comes with exactly its intended genre links;    *)
(* and a create whose commit fails (a director_id of no director, a missing *)
(* title) is answered with an error and leaves no movie row and no genre    *)
(* link row in the store.                                                   *)
C14_CreateAtomic ==
    [][ /\ \A m \in DOMAIN movies' :
            {l[2] : l \in {k \in movie_genres' : k[1] = m}}
                = IntendedGenres(movies'[m].title)
        /\ \A l \in movie_genres' : l[1] \in DOMAIN movies'
        /\ (req'.op = "get_movie" /\ resp'.status = 200) =>
                The(resp'.data).genres =
                    {genres[g].name : g \in IntendedGenres(The(resp'.data).title)}
        /\ \A c \in Callers : (calls[c].pc = "create" /\ calls'[c].pc = "idle") =>
                LET body == The(calls[c].body)
                IN  /\ req'.op = "add_movie" /\ req'.caller = c
                    /\ IF RefusedRow(body)
                       THEN /\ resp'.status = IntegrityErrorStatus
                            /\ resp'.data = None
                            /\ tables' = tables
                            /\ nextMovieId \notin DOMAIN movies'
                            /\ \A l \in movie_genres' : l[1] # nextMovieId
                       ELSE /\ resp'.status = 201
                            /\ DOMAIN movies' = DOMAIN movies \cup {nextMovieId}
                            /\ movies'[nextMovieId] = model_dump(body)
                            /\ \A m \in DOMAIN movies : movies'[m] = movies[m]
                            /\ movie_genres' = movie_genres \cup
                                    {<<nextMovieId, g>> : g \in IntendedGenres(body.title)}
      ]_vars

(* C14 witness: a create with a director_id of no director has just been   *)
(* refused while another caller is between the genre query and the commit   *)
(* of its own create, and a movie with its two genre links is in the store. *)
C14_Witness ==
    /\ req.op = "add_movie"
    /\ resp.status = IntegrityErrorStatus
    /\ req.body.director_id = Some(MissingId)
    /\ \E c \in Callers : calls[c].pc = "create" /\ c # req.caller
    /\ \E m \in DOMAIN movies : GenresOf(DB, m) = {1, 2}
    /\ \A m \in MovieIds : m >= nextMovieId => m \notin DOMAIN movies

=============================================================================
